---- MODULE Spec2Model ----
(***************************************************************************)
(* Document management backend (AteBit): document CRUD, file upload and    *)
(* AI analysis views over two stores -- the authoritative store            *)
(* (Firestore, services/firestore_service.py) and the local mirror (Django *)
(* ORM, models.py) -- modelled from apps/documents/views.py.               *)
(*                                                                         *)
(* Each HTTP request runs in a slot.  A view is split into steps at the    *)
(* calls that touch shared state (one Firestore service call, one ORM      *)
(* statement, one blob-store call), so that requests interleave exactly    *)
(* where the code can be pre-empted.  Calls that touch no shared state     *)
(* (validation, text extraction, the AI client) are folded into a step.    *)
(* Every call to a store or to an external service may raise; the number   *)
(* of raised failures in one behaviour is bounded by MaxFaults.            *)
(*                                                                         *)
(* The AI client (apps/ai_services/vertex_client.py) is modelled on its    *)
(* own in SpecAI: the retry loop of _generate_text attempt by attempt, the *)
(* parsing of the returned text and the token accounting, for requests of  *)
(* one kind and for the four sub-analyses of an 'all' request.             *)
(*                                                                         *)
(* The text extractor (services/text_extractor.py) is modelled on its own  *)
(* in SpecExtract (preconditions, MIME detection, strategy, cleaning, over *)
(* file contents built from blocks of bytes) and in SpecClean (_clean_text *)
(* applied once and twice to every text of up to MaxStrLen characters).    *)
(***************************************************************************)
EXTENDS Integers, Sequences, FiniteSets, TLC

\* ---------------------------------------------------------------- bounds
MaxOps == 2
MaxFaults == 1
MaxCalls == 4
MaxTextLen == 2

\* stop_after_attempt(3) of the retry decorator of _generate_text
MaxAttempts == 3

\* ------------------------------------------------------------ input sets
Users == {"alice", "bob"}
DocIds == {"d1"}
BadId == "not-a-uuid"
Slots == {"s1", "s2"}

SingleKinds == {"summary", "key_points", "risks", "translation"}
ANALYSIS_TYPES == SingleKinds \cup {"all"}
NoLang == "none"
Langs == {NoLang, "es", "xx"}
\* AnalysisRequestSerializer.SUPPORTED_LANGUAGES, the choices of target_language
SUPPORTED_LANGUAGES == {"en", "es", "fr", "de", "it", "pt", "zh", "ja"}
\* The (analysis_type, target_language) pairs requested
AnalyzeInputs ==
    {<<"summary", NoLang>>, <<"translation", NoLang>>, <<"translation", "es">>,
     <<"all", "es">>, <<"translation", "xx">>, <<"all", "xx">>}

\* ------------------------------------------------------------- records
\* A document record of either store.  text = 0 stands for a missing
\* extracted_text, storage = 0 for the empty storage_path; a positive value
\* is the id of the upload request that produced it.
Missing == [exists |-> FALSE, owner |-> "", status |-> "", text |-> 0, storage |-> 0]

NewDoc(owner) ==
    [exists |-> TRUE, owner |-> owner, status |-> "PENDING", text |-> 0, storage |-> 0]

Idle ==
    [op |-> "idle", pc |-> "idle", caller |-> "", doc |-> "", id |-> 0,
     atype |-> "", lang |-> "", version |-> 0, calls |-> 0, failed |-> 0,
     wrote |-> FALSE, file |-> "",
     snap |-> [d \in DocIds |-> Missing]]

\* What is kept of a returned response: the request, the HTTP status with
\* the error it reports, and the step (pc) of the view that returned.
Response(r, status) ==
    [op |-> r.op, caller |-> r.caller, doc |-> r.doc, atype |-> r.atype,
     lang |-> r.lang, status |-> status, version |-> r.version, calls |-> r.calls,
     failed |-> r.failed, wrote |-> r.wrote, pc |-> r.pc]

NoResponse == Response(Idle, "")

\* A token_usage dictionary whose total leaves out the output tokens.
TokenUsageInputOnly(input, output) ==
    [input_tokens |-> input, output_tokens |-> output, total_tokens |-> input]

\* A token_usage dictionary.
TokenUsage(input, output) ==
    [input_tokens |-> input, output_tokens |-> output, total_tokens |-> input + output]

\* The state of a VertexAIClient method: the method and its arguments, the
\* outcome of each attempt of _generate_text so far (log), the text of the
\* last reply of the service (reply), the text _generate_text returned
\* (text), the exception raised or "ok" (outcome), the token_usage of the
\* result, and the token_usage of the results obtained so far for the
\* request (usages).
AIIdle ==
    [phase |-> "idle", request |-> "", method |-> "", lang |-> "", words |-> 0,
     log |-> <<>>,
     reply |-> <<>>, text |-> <<>>, outcome |-> "", usage |-> TokenUsage(0, 0),
     usages |-> <<>>]

\* The state of a TextExtractor call: whether python-magic is in use
\* (use_magic), the arguments of extract_text, the methods that have run
\* (ran), the detected MIME type, the text of the strategy, the cleaned
\* text, and the exception raised or "ok" (outcome).
TxIdle ==
    [phase |-> "idle", use_magic |-> FALSE, file_content |-> <<>>,
     filename |-> <<>>, ran |-> <<>>, mime_type |-> "", text |-> <<>>,
     cleaned |-> <<>>, outcome |-> ""]

VARIABLES
    fsDocs,      \* Firestore collection 'documents': DocIds -> document record
    fsAnalyses,  \* Firestore sub-collection 'analyses' of each document
    mDocs,       \* mirror table Document (primary key document_id)
    mAnalyses,   \* mirror table Analysis
    mHistory,    \* mirror table History, in insertion order
    gcs,         \* blob store: set of [owner, doc] whose original file is stored
    req,         \* the request running in each slot
    lastResponse,\* the response returned last
    okVersions,  \* per document, the versions returned by the 200 responses
                 \* of the analyze view, in order of completion
    opCount,     \* number of requests started
    nextId,      \* id given to the next request
    faults,      \* number of failures raised by stores and services
    ai,          \* the VertexAIClient method in progress (AIIdle when none)
    tx           \* the TextExtractor call in progress (TxIdle when none)

vars == <<fsDocs, fsAnalyses, mDocs, mAnalyses, mHistory, gcs, req, lastResponse,
          okVersions, opCount, nextId, faults, ai, tx>>

\* ------------------------------------------------- FirestoreService
\* get_document: the record when it exists and is owned by uid, else None.
GetDocumentNoOwnerCheck(docs, d, uid) ==
    IF docs[d].exists THEN docs[d] ELSE Missing

GetDocument(docs, d, uid) ==
    IF docs[d].exists /\ docs[d].owner = uid THEN docs[d] ELSE Missing

\* create_document: doc_ref.set(doc_data) -- writes the record under the id.
CreateDocument(docs, d, uid) ==
    [docs EXCEPT ![d] = NewDoc(uid)]

\* updates is a function from a subset of the fields to their new values.
ApplyUpdates(rec, updates) ==
    [f \in DOMAIN rec |-> IF f \in DOMAIN updates THEN updates[f] ELSE rec[f]]

\* update_document: False when missing or not owned, else doc_ref.update.
UpdateDocumentNoOwnerCheck(docs, d, uid, updates) ==
    IF ~docs[d].exists
    THEN [ok |-> FALSE, docs |-> docs]
    ELSE [ok |-> TRUE, docs |-> [docs EXCEPT ![d] = ApplyUpdates(docs[d], updates)]]

UpdateDocument(docs, d, uid, updates) ==
    IF ~docs[d].exists \/ docs[d].owner # uid
    THEN [ok |-> FALSE, docs |-> docs]
    ELSE [ok |-> TRUE, docs |-> [docs EXCEPT ![d] = ApplyUpdates(docs[d], updates)]]

\* delete_document: False when missing or not owned, else doc_ref.delete.
\* Deleting a Firestore document leaves its sub-collections in place.
DeleteDocument(docs, d, uid) ==
    IF ~docs[d].exists \/ docs[d].owner # uid
    THEN [ok |-> FALSE, docs |-> docs]
    ELSE [ok |-> TRUE, docs |-> [docs EXCEPT ![d] = Missing]]

\* list_user_documents: the ids of the documents owned by uid.
ListUserDocuments(docs, uid) ==
    {d \in DocIds : docs[d].exists /\ docs[d].owner = uid}

\* The id of the analysis document: f"{analysis_type}_v{version}".
AnalysisKey(atype, version) == <<atype, version>>

\* analysis_ref.set(analysis_data): creates or replaces the record of the key.
SetAnalysis(S, rec) ==
    {x \in S : AnalysisKey(x.atype, x.version) # AnalysisKey(rec.atype, rec.version)}
        \cup {rec}

\* store_analysis_result: False when get_document returns None, else set.
StoreAnalysisResult(docs, analyses, d, uid, atype, result, version) ==
    IF ~GetDocument(docs, d, uid).exists
    THEN [ok |-> FALSE, analyses |-> analyses]
    ELSE [ok |-> TRUE,
          analyses |-> [analyses EXCEPT ![d] =
              SetAnalysis(@, [atype |-> atype, version |-> version, result |-> result])]]

\* ------------------------------------------------------ mirror (ORM)
Max(S) == CHOOSE x \in S : \A y \in S : y <= x

MirrorVersions(rows, d) == {a.version : a \in {x \in rows : x.doc = d}}

\* Analysis.objects.filter(document_id).order_by('-version').first(), + 1
NextVersion(rows, d) ==
    IF MirrorVersions(rows, d) = {} THEN 1 ELSE Max(MirrorVersions(rows, d)) + 1

\* unique_together = ['document_id', 'version']: the insert raises
\* IntegrityError when a row with the pair exists.
AnalysisInsertUnchecked(rows, d, version) == TRUE

AnalysisInsertAllowed(rows, d, version) ==
    version \notin MirrorVersions(rows, d)

\* get_or_create by document_id, then copy the fields of the Firestore record
\* (an absent extracted_text leaves the mirror's value).
SyncMirror(mdoc, fdoc) ==
    IF ~mdoc.exists
    THEN fdoc
    ELSE [fdoc EXCEPT !.text = IF fdoc.text # 0 THEN fdoc.text ELSE mdoc.text]

HistoryEntry(d, action, actor, version) ==
    [doc |-> d, action |-> action, actor |-> actor, version |-> version]

\* ------------------------------------------------------- bookkeeping
CanFail == faults < MaxFaults

\* Request r of slot s returns and frees the slot.
Finish(s, r, status) ==
    /\ req' = [req EXCEPT ![s] = Idle]
    /\ lastResponse' = Response(r, status)
    /\ okVersions' = IF r.op = "analyze" /\ status = "200"
                     THEN [okVersions EXCEPT ![r.doc] = Append(@, r.version)]
                     ELSE okVersions
    /\ ai' = ai
    /\ tx' = tx

\* Request r of slot s goes on to its next step.
Continue(s, r) ==
    /\ req' = [req EXCEPT ![s] = r]
    /\ UNCHANGED <<lastResponse, okVersions, ai, tx>>

Respond(s, status) == Finish(s, req[s], status)

Free(s) == req[s] = Idle /\ opCount < MaxOps

Started == opCount' = opCount + 1 /\ nextId' = nextId + 1

Begin(s, op, c, d) ==
    [Idle EXCEPT !.op = op, !.pc = "start", !.caller = c, !.doc = d, !.id = nextId]

\* The fields written after processing; the upload's id stands for the
\* text and the storage path it produced.
UpdateData(id) == [storage |-> id, text |-> id, status |-> "ANALYZED"]

\* A fresh deployment: both stores empty.
InitEmpty ==
    /\ fsDocs = [d \in DocIds |-> Missing]
    /\ fsAnalyses = [d \in DocIds |-> {}]
    /\ mDocs = [d \in DocIds |-> Missing]
    /\ mAnalyses = {}
    /\ mHistory = <<>>
    /\ gcs = {}
    /\ nextId = 1

\* A deployment in which alice has created document d1 (request 1) and
\* uploaded a file to it (request 2), both without failure: the state the
\* views reach from InitEmpty by CreateValidate .. CreateHistory and
\* UploadStart .. UploadHistory.
InitUploaded ==
    /\ fsDocs = [d \in DocIds |-> ApplyUpdates(NewDoc("alice"), UpdateData(2))]
    /\ fsAnalyses = [d \in DocIds |-> {}]
    /\ mDocs = [d \in DocIds |-> ApplyUpdates(NewDoc("alice"), UpdateData(2))]
    /\ mAnalyses = {}
    /\ mHistory = <<HistoryEntry("d1", "CREATED", "alice", 0),
                    HistoryEntry("d1", "UPLOADED", "alice", 0)>>
    /\ gcs = {[owner |-> "alice", doc |-> "d1"]}
    /\ nextId = 3

Init ==
    /\ InitEmpty \/ InitUploaded
    /\ req = [s \in Slots |-> Idle]
    /\ lastResponse = NoResponse
    /\ okVersions = [d \in DocIds |-> <<>>]
    /\ opCount = 0
    /\ faults = 0
    /\ ai = AIIdle
    /\ tx = TxIdle

Fault == faults' = faults + 1
NoFault == faults' = faults

\* ------------------------------------------ DocumentViewSet.create
\* serializer.is_valid: document_id is the unique primary key of the mirror
\* model, so an id present in the mirror is rejected by the validator.
CreateValidate(s, c, d) ==
    /\ Free(s)
    /\ Started
    /\ IF mDocs[d].exists
       THEN Finish(s, Begin(s, "create", c, d), "500:invalid")
       ELSE Continue(s, [Begin(s, "create", c, d) EXCEPT !.pc = "c_fs"])
    /\ UNCHANGED <<fsDocs, fsAnalyses, mDocs, mAnalyses, mHistory, gcs, faults>>

\* firestore_service.create_document.  A FirestoreError is re-raised as
\* exceptions.FirestoreError, which is no APIException: the handler that
\* maps it to 503 (custom_exception_handler) is not installed in
\* REST_FRAMEWORK, so the exception leaves the view unhandled (500).
CreateFirestore(s) ==
    /\ req[s].pc = "c_fs"
    /\ \/ /\ CanFail /\ Fault
          /\ Respond(s, "500:unhandled")
          /\ fsDocs' = fsDocs
       \/ /\ NoFault
          /\ fsDocs' = CreateDocument(fsDocs, req[s].doc, req[s].caller)
          /\ Continue(s, [req[s] EXCEPT !.pc = "c_mirror", !.wrote = TRUE])
    /\ UNCHANGED <<fsAnalyses, mDocs, mAnalyses, mHistory, gcs, opCount, nextId>>

\* Document.objects.create; an existing primary key raises IntegrityError
CreateMirror(s) ==
    /\ req[s].pc = "c_mirror"
    /\ \/ /\ mDocs[req[s].doc].exists
          /\ NoFault
          /\ Respond(s, "500:error")
          /\ mDocs' = mDocs
       \/ /\ CanFail /\ Fault
          /\ Respond(s, "500:error")
          /\ mDocs' = mDocs
       \/ /\ ~mDocs[req[s].doc].exists
          /\ NoFault
          /\ mDocs' = [mDocs EXCEPT ![req[s].doc] = NewDoc(req[s].caller)]
          /\ Continue(s, [req[s] EXCEPT !.pc = "c_hist"])
    /\ UNCHANGED <<fsDocs, fsAnalyses, mAnalyses, mHistory, gcs, opCount, nextId>>

\* History.log_action(CREATED), then 201
CreateHistory(s) ==
    /\ req[s].pc = "c_hist"
    /\ \/ /\ CanFail /\ Fault
          /\ Respond(s, "500:error")
          /\ mHistory' = mHistory
       \/ /\ NoFault
          /\ mHistory' = Append(mHistory,
                HistoryEntry(req[s].doc, "CREATED", req[s].caller, 0))
          /\ Respond(s, "201")
    /\ UNCHANGED <<fsDocs, fsAnalyses, mDocs, mAnalyses, gcs, opCount, nextId>>

\* --------------------------------------- DocumentAnalyzeView.post
\* AnalysisRequestSerializer without the choices of target_language.
AnalysisRequestValidAnyLanguage(atype, lang) ==
    ~(atype \in {"translation", "all"} /\ lang = NoLang)

\* AnalysisRequestSerializer.is_valid: target_language, when given, is one
\* of the choices, and 'translation' and 'all' require it.
AnalysisRequestValid(atype, lang) ==
    /\ lang = NoLang \/ lang \in SUPPORTED_LANGUAGES
    /\ ~(atype \in {"translation", "all"} /\ lang = NoLang)

\* The outcome of the checks that precede the AI calls:
\* uuid.UUID(document_id), get_document, extracted_text, the request serializer.
AnalyzePrecheckNoTextCheck(docs, c, d, atype, lang) ==
    IF d = BadId THEN "400:bad_id"
    ELSE IF ~GetDocument(docs, d, c).exists THEN "404:not_found"
    ELSE IF ~AnalysisRequestValid(atype, lang) THEN "500:invalid"
    ELSE "pass"

AnalyzePrecheck(docs, c, d, atype, lang) ==
    IF d = BadId THEN "400:bad_id"
    ELSE IF ~GetDocument(docs, d, c).exists THEN "404:not_found"
    ELSE IF GetDocument(docs, d, c).text = 0 THEN "400:no_text"
    ELSE IF ~AnalysisRequestValid(atype, lang) THEN "500:invalid"
    ELSE "pass"

AnalyzeStart(s, c, d, atype, lang) ==
    /\ Free(s)
    /\ Started
    /\ LET r == [Begin(s, "analyze", c, d) EXCEPT !.atype = atype, !.lang = lang]
           reply(status) == Finish(s, r, status)
       IN \/ /\ d # BadId /\ CanFail /\ Fault
             /\ reply("503:firestore")
          \/ /\ NoFault
             /\ IF AnalyzePrecheck(fsDocs, c, d, atype, lang) = "pass"
                THEN /\ Continue(s, [r EXCEPT !.pc = "a_ai"])
                ELSE reply(AnalyzePrecheck(fsDocs, c, d, atype, lang))
    /\ UNCHANGED <<fsDocs, fsAnalyses, mDocs, mAnalyses, mHistory, gcs>>

\* Number of vertex_client calls of a request: one per kind, four for 'all'
\* (the serializer guarantees a target language for 'all').
SubCalls(atype) == IF atype = "all" THEN 4 ELSE 1

\* translate_content: supported_languages and target_language.lower()
supported_languages == {"en", "es", "fr", "de", "it", "pt", "zh", "ja"}

Lower(l) == IF l = "ES" THEN "es" ELSE l

\* All the sub-analyses are called, whether or not one has raised.
IssuedCallsAll(atype, failAt) == SubCalls(atype)

\* The vertex_client calls run one after the other and the first that
\* raises ends the try block: the number of sub-analyses called when the
\* one numbered failAt raises (0: none raises).
IssuedCalls(atype, failAt) ==
    IF failAt \in 1..SubCalls(atype) THEN failAt ELSE SubCalls(atype)

\* A failed sub-analysis that does not end the request.
ViewStatusIgnoringFailure(outcome) == "200"

\* The except clauses of the analyze view around the client calls.
ViewStatus(outcome) ==
    IF outcome = "ValueError" THEN "400:ai_invalid" ELSE "503:ai_failed"

\* The client calls of the request.  A call raises ValueError (malformed
\* output) or another exception (RetryError, TypeError); translate_content,
\* the last call, raises ValueError before _generate_text when the target
\* language is not supported.  calls counts the calls of _generate_text.
AnalyzeAI(s) ==
    /\ req[s].pc = "a_ai"
    /\ LET n == SubCalls(req[s].atype)
           badLang == /\ req[s].atype \in {"translation", "all"}
                      /\ Lower(req[s].lang) \notin supported_languages
           fail(k, made, exc) ==
               Finish(s, [req[s] EXCEPT !.calls = made, !.failed = k], ViewStatus(exc))
       IN \/ /\ NoFault /\ ~badLang
             /\ Continue(s, [req[s] EXCEPT !.pc = "a_version",
                                   !.calls = IssuedCalls(req[s].atype, 0)])
          \/ /\ NoFault /\ badLang
             /\ fail(n, IssuedCalls(req[s].atype, n) - 1, "ValueError")
          \/ /\ CanFail /\ Fault
             /\ \E k \in 1..n, exc \in {"ValueError", "RetryError"} :
                   /\ badLang => k < n
                   /\ fail(k, IssuedCalls(req[s].atype, k), exc)
    /\ UNCHANGED <<fsDocs, fsAnalyses, mDocs, mAnalyses, mHistory, gcs, opCount, nextId>>

\* next_version from the latest mirror row; the bare except yields 1
AnalyzeVersion(s) ==
    /\ req[s].pc = "a_version"
    /\ \/ /\ NoFault
          /\ Continue(s, [req[s] EXCEPT !.pc = "a_fs",
                !.version = NextVersion(mAnalyses, req[s].doc)])
       \/ /\ CanFail /\ Fault
          /\ Continue(s, [req[s] EXCEPT !.pc = "a_fs", !.version = 1])
    /\ UNCHANGED <<fsDocs, fsAnalyses, mDocs, mAnalyses, mHistory, gcs, opCount, nextId>>

\* firestore_service.store_analysis_result; its return value is not used
AnalyzeFirestore(s) ==
    /\ req[s].pc = "a_fs"
    /\ \/ /\ CanFail /\ Fault
          /\ Respond(s, "503:ai_failed")
          /\ fsAnalyses' = fsAnalyses
       \/ /\ NoFault
          /\ LET r == StoreAnalysisResult(fsDocs, fsAnalyses, req[s].doc, req[s].caller,
                                          req[s].atype, req[s].id, req[s].version)
             IN /\ fsAnalyses' = r.analyses
                /\ Continue(s, [req[s] EXCEPT !.pc = "a_mirror", !.wrote = r.ok])
    /\ UNCHANGED <<fsDocs, mDocs, mAnalyses, mHistory, gcs, opCount, nextId>>

\* Analysis.objects.create; any exception -> 503
AnalyzeMirror(s) ==
    /\ req[s].pc = "a_mirror"
    /\ \/ /\ ~AnalysisInsertAllowed(mAnalyses, req[s].doc, req[s].version)
          /\ NoFault
          /\ Respond(s, "503:ai_failed")
          /\ mAnalyses' = mAnalyses
       \/ /\ CanFail /\ Fault
          /\ Respond(s, "503:ai_failed")
          /\ mAnalyses' = mAnalyses
       \/ /\ AnalysisInsertAllowed(mAnalyses, req[s].doc, req[s].version)
          /\ NoFault
          /\ mAnalyses' = mAnalyses \cup
                {[doc |-> req[s].doc, version |-> req[s].version, result |-> req[s].id]}
          /\ Continue(s, [req[s] EXCEPT !.pc = "a_hist"])
    /\ UNCHANGED <<fsDocs, fsAnalyses, mDocs, mHistory, gcs, opCount, nextId>>

\* History.log_action(ANALYZED), then 200 with the version
AnalyzeHistory(s) ==
    /\ req[s].pc = "a_hist"
    /\ \/ /\ CanFail /\ Fault
          /\ Respond(s, "503:ai_failed")
          /\ mHistory' = mHistory
       \/ /\ NoFault
          /\ mHistory' = Append(mHistory,
                HistoryEntry(req[s].doc, "ANALYZED", req[s].caller, req[s].version))
          /\ Respond(s, "200")
    /\ UNCHANGED <<fsDocs, fsAnalyses, mDocs, mAnalyses, gcs, opCount, nextId>>

\* ---------------------------------------- DocumentViewSet.get_object
\* First half of get_object: uuid.UUID(pk) and firestore get_document; a
\* FirestoreError, a bad id and None all raise Http404.
GetObjectOutcome(docs, c, d) ==
    IF d = BadId \/ ~GetDocument(docs, d, c).exists THEN "404:not_found" ELSE "pass"

GetObjectRead(s, op, c, d) ==
    /\ LET r == Begin(s, op, c, d)
       IN \/ /\ d # BadId /\ CanFail /\ Fault
             /\ Finish(s, r, "404:not_found")
          \/ /\ NoFault
             /\ IF GetObjectOutcome(fsDocs, c, d) # "pass"
                THEN Finish(s, r, GetObjectOutcome(fsDocs, c, d))
                ELSE /\ Continue(s, [r EXCEPT !.pc = "sync",
                                      !.snap = [x \in DocIds |->
                                          IF x = d THEN fsDocs[d] ELSE Missing]])
    /\ UNCHANGED <<fsDocs, fsAnalyses, mDocs, mAnalyses, mHistory, gcs>>

\* Second half of get_object: Document.objects.get_or_create and the copy of
\* the Firestore fields into the mirror row.
GetObjectSync(s, d) ==
    mDocs' = [mDocs EXCEPT ![d] = SyncMirror(mDocs[d], req[s].snap[d])]

\* ---------------------------------------- DocumentViewSet.retrieve
RetrieveStart(s, c, d) ==
    /\ Free(s)
    /\ Started
    /\ GetObjectRead(s, "retrieve", c, d)

RetrieveSync(s) ==
    /\ req[s].op = "retrieve" /\ req[s].pc = "sync"
    /\ \/ /\ CanFail /\ Fault
          /\ Respond(s, "500:error")
          /\ mDocs' = mDocs
       \/ /\ NoFault
          /\ GetObjectSync(s, req[s].doc)
          /\ Respond(s, "200")
    /\ UNCHANGED <<fsDocs, fsAnalyses, mAnalyses, mHistory, gcs, opCount, nextId>>

\* -------------------------------------------- DocumentViewSet.list
\* A FirestoreError is re-raised as exceptions.FirestoreError and leaves
\* the view unhandled, as in create.
ListStart(s, c) ==
    /\ Free(s)
    /\ Started
    /\ LET r == Begin(s, "list", c, "")
       IN \/ /\ CanFail /\ Fault
             /\ Finish(s, r, "500:unhandled")
          \/ /\ NoFault
             /\ Continue(s, [r EXCEPT !.pc = "sync",
                             !.snap = [x \in DocIds |->
                                 IF x \in ListUserDocuments(fsDocs, c)
                                 THEN fsDocs[x] ELSE Missing]])
    /\ UNCHANGED <<fsDocs, fsAnalyses, mDocs, mAnalyses, mHistory, gcs>>

ListSync(s) ==
    /\ req[s].op = "list" /\ req[s].pc = "sync"
    /\ \/ /\ CanFail /\ Fault
          /\ Respond(s, "500:error")
          /\ mDocs' = mDocs
       \/ /\ NoFault
          /\ mDocs' = [x \in DocIds |->
                IF req[s].snap[x].exists
                THEN SyncMirror(mDocs[x], req[s].snap[x]) ELSE mDocs[x]]
          /\ Respond(s, "200")
    /\ UNCHANGED <<fsDocs, fsAnalyses, mAnalyses, mHistory, gcs, opCount, nextId>>

\* ----------------------------------------- DocumentViewSet.destroy
DestroyStart(s, c, d) ==
    /\ Free(s)
    /\ Started
    /\ GetObjectRead(s, "destroy", c, d)

DestroySync(s) ==
    /\ req[s].op = "destroy" /\ req[s].pc = "sync"
    /\ \/ /\ CanFail /\ Fault
          /\ Respond(s, "500:error")
          /\ mDocs' = mDocs
       \/ /\ NoFault
          /\ GetObjectSync(s, req[s].doc)
          /\ Continue(s, [req[s] EXCEPT !.pc = "d_gcs"])
    /\ UNCHANGED <<fsDocs, fsAnalyses, mAnalyses, mHistory, gcs, opCount, nextId>>

\* destroy with a blob failure that ends the request (not the code's)
DestroyGcsAborting(s) ==
    /\ req[s].pc = "d_gcs"
    /\ \/ /\ CanFail /\ Fault
          /\ gcs' = gcs
          /\ Respond(s, "503:gcs")
       \/ /\ NoFault
          /\ gcs' = gcs \ {[owner |-> req[s].caller, doc |-> req[s].doc]}
          /\ Continue(s, [req[s] EXCEPT !.pc = "d_fs"])
    /\ UNCHANGED <<fsDocs, fsAnalyses, mDocs, mAnalyses, mHistory, opCount, nextId>>

\* gcs_service.delete_document; a GCSError is logged and deletion goes on
DestroyGcs(s) ==
    /\ req[s].pc = "d_gcs"
    /\ \/ /\ CanFail /\ Fault
          /\ gcs' = gcs
       \/ /\ NoFault
          /\ gcs' = gcs \ {[owner |-> req[s].caller, doc |-> req[s].doc]}
    /\ Continue(s, [req[s] EXCEPT !.pc = "d_fs"])
    /\ UNCHANGED <<fsDocs, fsAnalyses, mDocs, mAnalyses, mHistory, opCount, nextId>>

\* firestore_service.delete_document; False -> 404, FirestoreError -> 503
DestroyFirestore(s) ==
    /\ req[s].pc = "d_fs"
    /\ \/ /\ CanFail /\ Fault
          /\ Respond(s, "503:firestore")
          /\ fsDocs' = fsDocs
       \/ /\ NoFault
          /\ LET r == DeleteDocument(fsDocs, req[s].doc, req[s].caller)
             IN /\ fsDocs' = r.docs
                /\ IF r.ok
                   THEN /\ Continue(s, [req[s] EXCEPT !.pc = "d_mirror", !.wrote = TRUE])
                   ELSE Respond(s, "404:not_found")
    /\ UNCHANGED <<fsAnalyses, mDocs, mAnalyses, mHistory, gcs, opCount, nextId>>

\* document.delete() as it would be with cascading foreign keys (not the
\* code's: Analysis and History hold a plain document_id)
DestroyMirrorCascading(s) ==
    /\ req[s].pc = "d_mirror"
    /\ \/ /\ CanFail /\ Fault
          /\ Respond(s, "500:error")
          /\ UNCHANGED <<mDocs, mAnalyses, mHistory>>
       \/ /\ NoFault
          /\ mDocs' = [mDocs EXCEPT ![req[s].doc] = Missing]
          /\ mAnalyses' = {a \in mAnalyses : a.doc # req[s].doc}
          /\ mHistory' = SelectSeq(mHistory, LAMBDA h : h.doc # req[s].doc)
          /\ Continue(s, [req[s] EXCEPT !.pc = "d_hist"])
    /\ UNCHANGED <<fsDocs, fsAnalyses, gcs, opCount, nextId>>

\* document.delete() on the mirror row
DestroyMirror(s) ==
    /\ req[s].pc = "d_mirror"
    /\ \/ /\ CanFail /\ Fault
          /\ Respond(s, "500:error")
          /\ mDocs' = mDocs
       \/ /\ NoFault
          /\ mDocs' = [mDocs EXCEPT ![req[s].doc] = Missing]
          /\ Continue(s, [req[s] EXCEPT !.pc = "d_hist"])
    /\ UNCHANGED <<fsDocs, fsAnalyses, mAnalyses, mHistory, gcs, opCount, nextId>>

\* History.log_action(ERROR, payload deleted), then 204
DestroyHistory(s) ==
    /\ req[s].pc = "d_hist"
    /\ \/ /\ CanFail /\ Fault
          /\ Respond(s, "500:error")
          /\ mHistory' = mHistory
       \/ /\ NoFault
          /\ mHistory' = Append(mHistory,
                HistoryEntry(req[s].doc, "ERROR", req[s].caller, 0))
          /\ Respond(s, "204")
    /\ UNCHANGED <<fsDocs, fsAnalyses, mDocs, mAnalyses, gcs, opCount, nextId>>

\* ------------------------------------------ DocumentUploadView.post
Files == {"good", "unextractable", "invalid"}

\* The outcome of the checks that precede processing: uuid.UUID(document_id),
\* get_document, DocumentUploadSerializer.
UploadPrecheck(docs, c, d, file) ==
    IF d = BadId THEN "400:bad_id"
    ELSE IF ~GetDocument(docs, d, c).exists THEN "404:not_found"
    ELSE IF file = "invalid" THEN "invalid"
    ELSE "pass"

\* A ValidationError of the upload serializer is not a FirestoreError, so
\* the outer 'except Exception' handles it (pc u_err_other).
UploadStart(s, c, d, file) ==
    /\ Free(s)
    /\ Started
    /\ LET r == [Begin(s, "upload", c, d) EXCEPT !.file = file]
           check == UploadPrecheck(fsDocs, c, d, file)
       IN \/ /\ d # BadId /\ CanFail /\ Fault
             /\ Finish(s, r, "503:firestore")
          \/ /\ NoFault
             /\ IF check = "pass"
                THEN /\ Continue(s, [r EXCEPT !.pc = "u_processing"])
                ELSE IF check = "invalid"
                THEN /\ Continue(s, [r EXCEPT !.pc = "u_err_other"])
                ELSE Finish(s, r, check)
    /\ UNCHANGED <<fsDocs, fsAnalyses, mDocs, mAnalyses, mHistory, gcs>>

\* update_document({'status': 'PROCESSING'}); the result is not used
UploadProcessing(s) ==
    /\ req[s].pc = "u_processing"
    /\ \/ /\ CanFail /\ Fault
          /\ Respond(s, "503:firestore")
          /\ fsDocs' = fsDocs
       \/ /\ NoFault
          /\ LET r == UpdateDocument(fsDocs, req[s].doc, req[s].caller,
                                     [status |-> "PROCESSING"])
             IN /\ fsDocs' = r.docs
                /\ Continue(s, [req[s] EXCEPT !.pc = "u_gcs", !.wrote = r.ok])
    /\ UNCHANGED <<fsAnalyses, mDocs, mAnalyses, mHistory, gcs, opCount, nextId>>

\* gcs_service.upload_document, then TextExtractor.extract_text; the backup
\* of the text and the language detection swallow their failures.
UploadStore(s) ==
    /\ req[s].pc = "u_gcs"
    /\ \/ /\ CanFail /\ Fault
          /\ gcs' = gcs
          /\ Continue(s, [req[s] EXCEPT !.pc = "u_err_gcs"])
       \/ /\ NoFault
          /\ gcs' = gcs \cup {[owner |-> req[s].caller, doc |-> req[s].doc]}
          /\ Continue(s, [req[s] EXCEPT !.pc =
                IF req[s].file = "good" THEN "u_fs" ELSE "u_err_extract"])
    /\ UNCHANGED <<fsDocs, fsAnalyses, mDocs, mAnalyses, mHistory, opCount, nextId>>

\* update_document(update_data); the result is not used
UploadFirestore(s) ==
    /\ req[s].pc = "u_fs"
    /\ \/ /\ CanFail /\ Fault
          /\ Respond(s, "503:firestore")
          /\ fsDocs' = fsDocs
       \/ /\ NoFault
          /\ LET r == UpdateDocument(fsDocs, req[s].doc, req[s].caller,
                                     UpdateData(req[s].id))
             IN /\ fsDocs' = r.docs
                /\ Continue(s, [req[s] EXCEPT !.pc = "u_mirror", !.wrote = r.ok])
    /\ UNCHANGED <<fsAnalyses, mDocs, mAnalyses, mHistory, gcs, opCount, nextId>>

\* Document.objects.get + setattr + save, or create when DoesNotExist
UploadMirror(s) ==
    /\ req[s].pc = "u_mirror"
    /\ \/ /\ CanFail /\ Fault
          /\ mDocs' = mDocs
          /\ Continue(s, [req[s] EXCEPT !.pc = "u_err_other"])
       \/ /\ NoFault
          /\ mDocs' = [mDocs EXCEPT ![req[s].doc] =
                ApplyUpdates(IF @.exists THEN @ ELSE NewDoc(req[s].caller),
                             UpdateData(req[s].id))]
          /\ Continue(s, [req[s] EXCEPT !.pc = "u_hist"])
    /\ UNCHANGED <<fsDocs, fsAnalyses, mAnalyses, mHistory, gcs, opCount, nextId>>

\* History.log_action(UPLOADED), then 200
UploadHistory(s) ==
    /\ req[s].pc = "u_hist"
    /\ \/ /\ CanFail /\ Fault
          /\ mHistory' = mHistory
          /\ Continue(s, [req[s] EXCEPT !.pc = "u_err_other"])
       \/ /\ NoFault
          /\ mHistory' = Append(mHistory,
                HistoryEntry(req[s].doc, "UPLOADED", req[s].caller, 0))
          /\ Respond(s, "200")
    /\ UNCHANGED <<fsDocs, fsAnalyses, mDocs, mAnalyses, gcs, opCount, nextId>>

\* The except clauses: update_document({'status': 'ERROR'}) and the error
\* response.  A FirestoreError raised in the GCSError and TextExtractionError
\* handlers reaches the outer handler (503); the handler of any other
\* exception swallows it.
UploadError(s) ==
    /\ req[s].pc \in {"u_err_gcs", "u_err_extract", "u_err_other"}
    /\ LET status == CASE req[s].pc = "u_err_gcs" -> "503:gcs"
                       [] req[s].pc = "u_err_extract" -> "422:extraction"
                       [] OTHER -> "500:error"
       IN \/ /\ CanFail /\ Fault
             /\ fsDocs' = fsDocs
             /\ Respond(s, IF req[s].pc = "u_err_other" THEN status ELSE "503:firestore")
          \/ /\ NoFault
             /\ LET r == UpdateDocument(fsDocs, req[s].doc, req[s].caller,
                                        [status |-> "ERROR"])
                IN /\ fsDocs' = r.docs
                   /\ Finish(s, [req[s] EXCEPT !.wrote = r.ok], status)
    /\ UNCHANGED <<fsAnalyses, mDocs, mAnalyses, mHistory, gcs, opCount, nextId>>

\* ---------------------------------------- DocumentDownloadView.get
\* The outcome of the checks of the download view, in the order of the code.
DownloadOutcome(docs, blobs, c, d) ==
    IF d = BadId THEN "400:bad_id"
    ELSE IF ~GetDocument(docs, d, c).exists THEN "404:not_found"
    ELSE IF GetDocument(docs, d, c).storage = 0 THEN "400:not_uploaded"
    ELSE IF [owner |-> c, doc |-> d] \notin blobs THEN "404:no_file"
    ELSE "200"

Download(s, c, d) ==
    /\ Free(s)
    /\ Started
    /\ LET r == Begin(s, "download", c, d)
           out == DownloadOutcome(fsDocs, gcs, c, d)
       IN \/ /\ d # BadId /\ CanFail /\ Fault
             /\ \E status \in {"503:firestore", "503:gcs", "500:error"} :
                   /\ status = "503:gcs" => out \in {"404:no_file", "200"}
                   /\ status = "500:error" => out = "200"
                   /\ Finish(s, r, status)
             /\ mHistory' = mHistory
          \/ /\ NoFault
             /\ Finish(s, r, out)
             /\ mHistory' = IF out = "200"
                            THEN Append(mHistory, HistoryEntry(d, "DOWNLOADED", c, 0))
                            ELSE mHistory
    /\ UNCHANGED <<fsDocs, fsAnalyses, mDocs, mAnalyses, gcs>>

\* --------------------------------- DocumentAnalysisHistoryView.get
\* version 0 stands for a request without a version (the latest analysis).
AnalysisLookup(rows, d, version) ==
    IF version = 0
    THEN IF MirrorVersions(rows, d) = {} THEN 0 ELSE Max(MirrorVersions(rows, d))
    ELSE IF version \in MirrorVersions(rows, d) THEN version ELSE 0

AnalysisHistoryOutcome(docs, c, d, found) ==
    IF d = BadId THEN "400:bad_id"
    ELSE IF ~GetDocument(docs, d, c).exists THEN "404:not_found"
    ELSE IF found = 0 THEN "404:no_analysis"
    ELSE "200"

AnalysisHistory(s, c, d, version) ==
    /\ Free(s)
    /\ Started
    /\ LET found == IF d = BadId THEN 0 ELSE AnalysisLookup(mAnalyses, d, version)
           out == AnalysisHistoryOutcome(fsDocs, c, d, found)
           r == [Begin(s, "analysis", c, d) EXCEPT
                    !.version = IF out = "200" THEN found ELSE 0]
       IN \/ /\ d # BadId /\ CanFail /\ Fault
             /\ \E status \in {"503:firestore", "500:error"} :
                   /\ status = "500:error" => out \in {"404:no_analysis", "200"}
                   /\ Finish(s, [r EXCEPT !.version = 0], status)
          \/ /\ NoFault
             /\ Finish(s, r, out)
    /\ UNCHANGED <<fsDocs, fsAnalyses, mDocs, mAnalyses, mHistory, gcs>>

\* ------------------------------------------------------------- system
Next ==
    \/ \E s \in Slots, c \in Users, d \in DocIds : CreateValidate(s, c, d)
    \/ \E s \in Slots : CreateFirestore(s)
    \/ \E s \in Slots : CreateMirror(s)
    \/ \E s \in Slots : CreateHistory(s)
    \/ \E s \in Slots, c \in Users, d \in DocIds \cup {BadId} : RetrieveStart(s, c, d)
    \/ \E s \in Slots : RetrieveSync(s)
    \/ \E s \in Slots, c \in Users : ListStart(s, c)
    \/ \E s \in Slots : ListSync(s)
    \/ \E s \in Slots, c \in Users, d \in DocIds \cup {BadId} : DestroyStart(s, c, d)
    \/ \E s \in Slots : DestroySync(s)
    \/ \E s \in Slots : DestroyGcs(s)
    \/ \E s \in Slots : DestroyFirestore(s)
    \/ \E s \in Slots : DestroyMirror(s)
    \/ \E s \in Slots : DestroyHistory(s)
    \/ \E s \in Slots, c \in Users, d \in DocIds \cup {BadId}, f \in Files :
          UploadStart(s, c, d, f)
    \/ \E s \in Slots : UploadProcessing(s)
    \/ \E s \in Slots : UploadStore(s)
    \/ \E s \in Slots : UploadFirestore(s)
    \/ \E s \in Slots : UploadMirror(s)
    \/ \E s \in Slots : UploadHistory(s)
    \/ \E s \in Slots : UploadError(s)
    \/ \E s \in Slots, c \in Users, d \in DocIds \cup {BadId}, i \in AnalyzeInputs :
          AnalyzeStart(s, c, d, i[1], i[2])
    \/ \E s \in Slots : AnalyzeAI(s)
    \/ \E s \in Slots : AnalyzeVersion(s)
    \/ \E s \in Slots : AnalyzeFirestore(s)
    \/ \E s \in Slots : AnalyzeMirror(s)
    \/ \E s \in Slots : AnalyzeHistory(s)
    \/ \E s \in Slots, c \in Users, d \in DocIds \cup {BadId} : Download(s, c, d)
    \/ \E s \in Slots, c \in Users, d \in DocIds \cup {BadId}, v \in 0..1 :
          AnalysisHistory(s, c, d, v)

Spec == Init /\ [][Next]_vars

\* One request at a time: every view run in the same slot.
SeqSlot == "s1"

NextSeq ==
    \/ \E c \in Users, d \in DocIds : CreateValidate(SeqSlot, c, d)
    \/ CreateFirestore(SeqSlot)
    \/ CreateMirror(SeqSlot)
    \/ CreateHistory(SeqSlot)
    \/ \E c \in Users, d \in DocIds \cup {BadId} : RetrieveStart(SeqSlot, c, d)
    \/ RetrieveSync(SeqSlot)
    \/ \E c \in Users : ListStart(SeqSlot, c)
    \/ ListSync(SeqSlot)
    \/ \E c \in Users, d \in DocIds \cup {BadId} : DestroyStart(SeqSlot, c, d)
    \/ DestroySync(SeqSlot)
    \/ DestroyGcs(SeqSlot)
    \/ DestroyFirestore(SeqSlot)
    \/ DestroyMirror(SeqSlot)
    \/ DestroyHistory(SeqSlot)
    \/ \E c \in Users, d \in DocIds \cup {BadId}, f \in Files :
          UploadStart(SeqSlot, c, d, f)
    \/ UploadProcessing(SeqSlot)
    \/ UploadStore(SeqSlot)
    \/ UploadFirestore(SeqSlot)
    \/ UploadMirror(SeqSlot)
    \/ UploadHistory(SeqSlot)
    \/ UploadError(SeqSlot)
    \/ \E c \in Users, d \in DocIds \cup {BadId}, i \in AnalyzeInputs :
          AnalyzeStart(SeqSlot, c, d, i[1], i[2])
    \/ AnalyzeAI(SeqSlot)
    \/ AnalyzeVersion(SeqSlot)
    \/ AnalyzeFirestore(SeqSlot)
    \/ AnalyzeMirror(SeqSlot)
    \/ AnalyzeHistory(SeqSlot)
    \/ \E c \in Users, d \in DocIds \cup {BadId} : Download(SeqSlot, c, d)
    \/ \E c \in Users, d \in DocIds \cup {BadId}, v \in 0..1 :
          AnalysisHistory(SeqSlot, c, d, v)

SpecSeq == Init /\ [][NextSeq]_vars

\* ------------------------------------ FirestoreService called directly
\* The service methods called one at a time with any caller, document and
\* arguments, as the service's unit tests call them.  lastResponse records the
\* call and, in wrote, what it returned.
ServiceCall(name, c, d, result) ==
    /\ opCount < MaxCalls
    /\ opCount' = opCount + 1
    /\ nextId' = nextId + 1
    /\ lastResponse' = Response([Idle EXCEPT !.op = name, !.caller = c, !.doc = d,
                                             !.wrote = result], "")
    /\ UNCHANGED <<mDocs, mAnalyses, mHistory, gcs, req, okVersions, faults, ai, tx>>

ServiceUpdates == {[status |-> "PROCESSING"], [status |-> "ERROR"], UpdateData(1)}

ServiceCreate(c, d) ==
    /\ ServiceCall("create_document", c, d, TRUE)
    /\ fsDocs' = CreateDocument(fsDocs, d, c)
    /\ UNCHANGED fsAnalyses

ServiceGet(c, d) ==
    /\ ServiceCall("get_document", c, d, GetDocument(fsDocs, d, c).exists)
    /\ UNCHANGED <<fsDocs, fsAnalyses>>

ServiceUpdate(c, d, updates) ==
    /\ ServiceCall("update_document", c, d, UpdateDocument(fsDocs, d, c, updates).ok)
    /\ fsDocs' = UpdateDocument(fsDocs, d, c, updates).docs
    /\ UNCHANGED fsAnalyses

ServiceDelete(c, d) ==
    /\ ServiceCall("delete_document", c, d, DeleteDocument(fsDocs, d, c).ok)
    /\ fsDocs' = DeleteDocument(fsDocs, d, c).docs
    /\ UNCHANGED fsAnalyses

ServiceStore(c, d, atype, version) ==
    LET r == StoreAnalysisResult(fsDocs, fsAnalyses, d, c, atype, nextId, version)
    IN /\ ServiceCall("store_analysis_result", c, d, r.ok)
       /\ fsAnalyses' = r.analyses
       /\ UNCHANGED fsDocs

NextService ==
    \/ \E c \in Users, d \in DocIds : ServiceCreate(c, d)
    \/ \E c \in Users, d \in DocIds : ServiceGet(c, d)
    \/ \E c \in Users, d \in DocIds, u \in ServiceUpdates : ServiceUpdate(c, d, u)
    \/ \E c \in Users, d \in DocIds : ServiceDelete(c, d)
    \/ \E c \in Users, d \in DocIds, t \in {"summary", "risks"}, v \in 1..2 :
          ServiceStore(c, d, t, v)

SpecService == Init /\ [][NextService]_vars

\* ================================================================ claims
\* ------------------------------------------------- VertexAIClient
\* (supported_languages, Lower and ViewStatus are defined with the analyze
\* view, which uses them.)
\* A text is a sequence of pieces: whitespace, a JSON object written without
\* spaces, a JSON object written in two words, a JSON array, any other word.
Pieces == {"ws", "obj", "obj2", "arr", "word"}
Texts == UNION {[1..n -> Pieces] : n \in 0..MaxTextLen}

\* What model.generate_content does in one attempt: it raises, or returns a
\* response with a text.
ServiceReplies ==
    {[raises |-> TRUE, text |-> <<>>]} \cup {[raises |-> FALSE, text |-> t] : t \in Texts}

RECURSIVE LStrip(_)
LStrip(t) == IF t # <<>> /\ Head(t) = "ws" THEN LStrip(Tail(t)) ELSE t

RECURSIVE RStrip(_)
RStrip(t) ==
    IF t # <<>> /\ t[Len(t)] = "ws" THEN RStrip(SubSeq(t, 1, Len(t) - 1)) ELSE t

\* str.strip()
Strip(t) == RStrip(LStrip(t))

\* len(text.split()): the words of the pieces, less one for every two
\* adjacent pieces that no whitespace separates.
PieceWords(x) == IF x = "ws" THEN 0 ELSE IF x = "obj2" THEN 2 ELSE 1

RECURSIVE SumWords(_)
SumWords(t) == IF t = <<>> THEN 0 ELSE PieceWords(Head(t)) + SumWords(Tail(t))

WordCount(t) ==
    SumWords(t) - Cardinality({i \in 1..(Len(t) - 1) : t[i] # "ws" /\ t[i + 1] # "ws"})

\* json.loads: surrounding whitespace is allowed, anything but one JSON value
\* raises JSONDecodeError.
JsonLoads(t) ==
    IF Strip(t) \in {<<"obj">>, <<"obj2">>} THEN "dict"
    ELSE IF Strip(t) = <<"arr">> THEN "list"
    ELSE "JSONDecodeError"

\* len(text.split()) of the document texts analysed
DocWords == {0, 1}

ClientMethods ==
    {"summarize_document", "extract_key_points", "detect_risks", "translate_content"}

\* The order of the sub-analyses of an 'all' request.
CompositeOrder ==
    <<"summarize_document", "extract_key_points", "detect_risks", "translate_content">>

ClientLangs == {"es", "ES", "xx"}

\* len(system_prompt.split()) of each method
PromptWords(method) ==
    CASE method = "summarize_document" -> 91
      [] method = "translate_content" -> 70
      [] method = "extract_key_points" -> 148
      [] OTHER -> 172

\* stop=stop_after_attempt(3)
StopAfterAttemptLater(attempt) == attempt >= MaxAttempts + 1

StopAfterAttempt(attempt) == attempt >= MaxAttempts

\* A client method is entered: translate_content first checks the target
\* language and raises ValueError without calling _generate_text.
CallMethod(a, method, lang, words) ==
    LET b == [a EXCEPT !.method = method, !.lang = lang, !.words = words,
                       !.log = <<>>, !.reply = <<>>, !.text = <<>>,
                       !.outcome = "", !.usage = TokenUsage(0, 0)]
    IN IF method = "translate_content" /\ Lower(lang) \notin supported_languages
       THEN [b EXCEPT !.phase = "done", !.outcome = "ValueError"]
       ELSE [b EXCEPT !.phase = "generating"]

\* One attempt of _generate_text under the retry decorator: an exception of
\* generate_content and an empty response.text fail the attempt; a failed
\* attempt is repeated until stop_after_attempt, then RetryError is raised.
\* Otherwise response.text.strip() is returned.
AttemptClass(reply) ==
    IF reply.raises THEN "raise" ELSE IF reply.text = <<>> THEN "empty" ELSE "text"

\* The attempt without the retry decorator: the first failure is raised.
AttemptNoRetry(a, reply) ==
    LET log == Append(a.log, AttemptClass(reply))
        b == [a EXCEPT !.log = log, !.reply = reply.text]
    IN IF AttemptClass(reply) # "text"
       THEN [b EXCEPT !.phase = "done",
                      !.outcome = IF reply.raises THEN "Exception" ELSE "ValueError"]
       ELSE [b EXCEPT !.phase = "returned", !.text = Strip(reply.text)]

Attempt(a, reply) ==
    LET log == Append(a.log, AttemptClass(reply))
        b == [a EXCEPT !.log = log, !.reply = reply.text]
    IN IF AttemptClass(reply) # "text"
       THEN IF StopAfterAttempt(Len(log))
            THEN [b EXCEPT !.phase = "done", !.outcome = "RetryError"]
            ELSE b
       ELSE [b EXCEPT !.phase = "returned", !.text = Strip(reply.text)]

\* A parse failure that is followed by another attempt of _generate_text.
ParseResultRetrying(a) ==
    LET usage == TokenUsage(a.words + PromptWords(a.method), WordCount(a.text))
    IN CASE JsonLoads(a.text) = "dict" ->
              [a EXCEPT !.phase = "done", !.outcome = "ok", !.usage = usage,
                        !.usages = Append(@, usage)]
         [] JsonLoads(a.text) = "list" ->
              [a EXCEPT !.phase = "done", !.outcome = "TypeError"]
         [] OTHER ->
              IF StopAfterAttempt(Len(a.log))
              THEN [a EXCEPT !.phase = "done", !.outcome = "ValueError"]
              ELSE [a EXCEPT !.phase = "generating", !.text = <<>>]

\* The rest of a client method once _generate_text has returned:
\* json.loads (JSONDecodeError -> ValueError), then the token_usage entry
\* of the result, which raises TypeError when the result is not a dict.
ParseResult(a) ==
    LET usage == TokenUsage(a.words + PromptWords(a.method), WordCount(a.text))
    IN CASE JsonLoads(a.text) = "dict" ->
              [a EXCEPT !.phase = "done", !.outcome = "ok", !.usage = usage,
                        !.usages = Append(@, usage)]
         [] JsonLoads(a.text) = "list" ->
              [a EXCEPT !.phase = "done", !.outcome = "TypeError"]
         [] OTHER ->
              [a EXCEPT !.phase = "done", !.outcome = "ValueError"]

RECURSIVE SumField(_, _)
SumField(usages, field) ==
    IF usages = <<>> THEN 0 ELSE Head(usages)[field] + SumField(Tail(usages), field)

\* total_tokens of an 'all' request: the sums over the results obtained.
CombineTokenUsage(usages) ==
    TokenUsage(SumField(usages, "input_tokens"), SumField(usages, "output_tokens"))

AIFrame ==
    UNCHANGED <<fsDocs, fsAnalyses, mDocs, mAnalyses, mHistory, gcs, req,
                lastResponse, okVersions, nextId, faults, tx>>

\* A request of one analysis kind calls its client method.
StartSingle(method, lang, words) ==
    /\ ai.phase \in {"idle", "done"}
    /\ opCount' = opCount
    /\ ai' = CallMethod([AIIdle EXCEPT !.request = "single"], method, lang, words)
    /\ AIFrame

\* An 'all' request calls summarize_document.
StartComposite(lang, words) ==
    /\ ai.phase \in {"idle", "done"}
    /\ opCount' = opCount
    /\ ai' = CallMethod([AIIdle EXCEPT !.request = "all"], CompositeOrder[1], lang, words)
    /\ AIFrame

\* An 'all' request whose last sub-analysis returned calls the next one; the
\* translation gets extracted_text[:2000].
NextSubAnalysis(words) ==
    /\ ai.phase = "done" /\ ai.outcome = "ok" /\ ai.request = "all"
    /\ Len(ai.usages) < Len(CompositeOrder)
    /\ words <= ai.words
    /\ words = ai.words \/ CompositeOrder[Len(ai.usages) + 1] = "translate_content"
    /\ ai' = CallMethod(ai, CompositeOrder[Len(ai.usages) + 1], ai.lang, words)
    /\ opCount' = opCount
    /\ AIFrame

GenerateAttempt(reply) ==
    /\ ai.phase = "generating"
    /\ ai' = Attempt(ai, reply)
    /\ opCount' = opCount
    /\ AIFrame

ParseResponse ==
    /\ ai.phase = "returned"
    /\ ai' = ParseResult(ai)
    /\ opCount' = opCount
    /\ AIFrame

NextAI ==
    \/ \E m \in ClientMethods, l \in ClientLangs, w \in DocWords : StartSingle(m, l, w)
    \/ \E l \in ClientLangs, w \in DocWords : StartComposite(l, w)
    \/ \E w \in DocWords : NextSubAnalysis(w)
    \/ \E reply \in ServiceReplies : GenerateAttempt(reply)
    \/ ParseResponse

SpecAI == Init /\ [][NextAI]_vars

\* The retry loop and the parsing are not suspended forever.
SpecAIFair ==
    /\ SpecAI
    /\ WF_vars(\E reply \in ServiceReplies : GenerateAttempt(reply))
    /\ WF_vars(ParseResponse)

\* ================================================== TextExtractor
\* A text is a sequence of characters: a letter, a space, a tab, a carriage
\* return, a line feed.
MaxStrLen == 6
Chars == {"a", "sp", "tab", "cr", "lf"}
Whitespace == {"sp", "tab", "cr", "lf"}
Strings == UNION {[1..n -> Chars] : n \in 0..MaxStrLen}

\* the number of leading characters of t that are in S
RECURSIVE RunLen(_, _)
RunLen(t, S) ==
    IF t = <<>> \/ t[1] \notin S THEN 0 ELSE 1 + RunLen(Tail(t), S)

Drop(t, n) == SubSeq(t, n + 1, Len(t))

Reverse(t) == [i \in 1..Len(t) |-> t[Len(t) + 1 - i]]

\* text.replace('\r\n', '\n')
RECURSIVE ReplaceCRLF(_)
ReplaceCRLF(t) ==
    IF t = <<>> THEN <<>>
    ELSE IF Len(t) >= 2 /\ t[1] = "cr" /\ t[2] = "lf"
    THEN <<"lf">> \o ReplaceCRLF(Drop(t, 2))
    ELSE <<t[1]>> \o ReplaceCRLF(Tail(t))

\* text.replace('\r', '\n')
ReplaceCR(t) == [i \in 1..Len(t) |-> IF t[i] = "cr" THEN "lf" ELSE t[i]]

\* re.sub(r'[ \t]+', ' ', text)
RECURSIVE SubSpaces(_)
SubSpaces(t) ==
    IF t = <<>> THEN <<>>
    ELSE IF t[1] \in {"sp", "tab"}
    THEN <<"sp">> \o SubSpaces(Drop(t, RunLen(t, {"sp", "tab"})))
    ELSE <<t[1]>> \o SubSpaces(Tail(t))

\* re.sub(r'\n{3,}', '\n\n', text)
RECURSIVE SubNewlines(_)
SubNewlines(t) ==
    IF t = <<>> THEN <<>>
    ELSE IF t[1] = "lf"
    THEN LET n == RunLen(t, {"lf"})
         IN (IF n >= 3 THEN <<"lf", "lf">> ELSE SubSeq(t, 1, n))
                \o SubNewlines(Drop(t, n))
    ELSE <<t[1]>> \o SubNewlines(Tail(t))

\* text.split('\n')
RECURSIVE Split(_)
Split(t) ==
    LET n == RunLen(t, Chars \ {"lf"})
    IN IF n = Len(t) THEN <<t>> ELSE <<SubSeq(t, 1, n)>> \o Split(Drop(t, n + 1))

\* str.strip()
StrStrip(t) ==
    LET l == Drop(t, RunLen(t, Whitespace))
    IN SubSeq(l, 1, Len(l) - RunLen(Reverse(l), Whitespace))

\* '\n'.join(lines)
RECURSIVE Join(_)
Join(lines) ==
    IF Len(lines) = 0 THEN <<>>
    ELSE IF Len(lines) = 1 THEN lines[1]
    ELSE lines[1] \o <<"lf">> \o Join(Tail(lines))

\* TextExtractor._clean_text
CleanText(text) ==
    IF text = <<>> THEN <<>>
    ELSE LET normalized == ReplaceCR(ReplaceCRLF(text))
             spaced == SubSpaces(normalized)
             lines == Split(SubNewlines(spaced))
         IN StrStrip(Join([i \in 1..Len(lines) |-> StrStrip(lines[i])]))

\* ------------------------------------------------ file contents
\* A file content is a sequence of blocks of bytes: the signatures the
\* detection looks for, the marker 'wordprocessingml', four printable ASCII
\* characters (text), one control character (ctrl), one byte that is not
\* valid UTF-8 (bad), 1024 printable characters (pad), and MAX_FILE_SIZE
\* printable characters (big).
MaxBlocks == 3
MAX_FILE_SIZE == 10485760
SampleWindow == 1024
None == "None"
PDF == "application/pdf"
DOCX == "application/vnd.openxmlformats-officedocument.wordprocessingml.document"
Blocks == {"%PDF", "PK34", "PNG", "JPEG", "GIF8", "marker", "text", "ctrl", "bad",
           "pad", "big"}
Contents == UNION {[1..n -> Blocks] : n \in 0..MaxBlocks}

BlockSize(b) ==
    CASE b = "JPEG" -> 3
      [] b = "marker" -> 16
      [] b \in {"ctrl", "bad"} -> 1
      [] b = "pad" -> SampleWindow
      [] b = "big" -> MAX_FILE_SIZE
      [] OTHER -> 4

\* len(file_content)
RECURSIVE ByteLen(_)
ByteLen(c) == IF c = <<>> THEN 0 ELSE BlockSize(c[1]) + ByteLen(Tail(c))

Min(a, b) == IF a <= b THEN a ELSE b

\* the number of bytes of block i of c that are in file_content[:1024]
InWindow(c, i) ==
    LET offset == ByteLen(SubSeq(c, 1, i - 1))
    IN Max({0, Min(BlockSize(c[i]), SampleWindow - offset)})

\* file_content.startswith(signature)
StartsWith(c, signature) == Len(c) >= 1 /\ c[1] = signature

\* 'wordprocessingml' in file_content[:1024].decode('utf-8', errors='ignore')
ContainsMarker(c) ==
    \E i \in 1..Len(c) : c[i] = "marker" /\ InWindow(c, i) = BlockSize("marker")

\* file_content[:1024].decode('utf-8') raises no UnicodeDecodeError
DecodesUtf8(c) ==
    \A i \in 1..Len(c) : InWindow(c, i) > 0 => c[i] \notin {"bad", "PNG", "JPEG"}

\* the printable or whitespace characters among the first k bytes of block b
PrintableIn(b, k) ==
    CASE b = "ctrl" -> 0
      [] b = "PK34" -> Min(k, 2)
      [] OTHER -> k

\* sum(1 for ch in decoded if ch.isprintable() or ch.isspace()), over the
\* first i blocks
RECURSIVE PrintableUpTo(_, _)
PrintableUpTo(c, i) ==
    IF i = 0 THEN 0
    ELSE PrintableIn(c[i], InWindow(c, i)) + PrintableUpTo(c, i - 1)

PrintableCount(c) == PrintableUpTo(c, Len(c))

\* len(decoded), over the first i blocks
RECURSIVE DecodedUpTo(_, _)
DecodedUpTo(c, i) ==
    IF i = 0 THEN 0 ELSE InWindow(c, i) + DecodedUpTo(c, i - 1)

DecodedLen(c) == DecodedUpTo(c, Len(c))

\* printable_ratio > 0.8
PrintableRatioPasses(c) == 5 * PrintableCount(c) > 4 * DecodedLen(c)

\* TextExtractor._detect_by_signature
DetectBySignature(c) ==
    IF ByteLen(c) < 4 THEN None
    ELSE IF StartsWith(c, "%PDF") THEN PDF
    ELSE IF StartsWith(c, "PK34")
    THEN (IF ContainsMarker(c) THEN DOCX ELSE "application/zip")
    ELSE IF StartsWith(c, "PNG") THEN "image/png"
    ELSE IF StartsWith(c, "JPEG") THEN "image/jpeg"
    ELSE IF StartsWith(c, "GIF8") THEN "image/gif"
    ELSE IF DecodesUtf8(c) /\ PrintableRatioPasses(c) THEN "text/plain"
    ELSE None

\* A filename is the sequence of its parts between dots; <<>> is no filename.
Filenames == {<<>>, <<"lease", "pdf">>, <<"lease", "docx">>, <<"lease", "txt">>,
              <<"lease", "csv">>, <<"lease", "zip">>}

\* mimetypes.guess_type(filename)[0]
GuessType(f) ==
    IF Len(f) < 2 THEN None
    ELSE CASE f[Len(f)] = "pdf" -> PDF
           [] f[Len(f)] = "docx" -> DOCX
           [] f[Len(f)] = "txt" -> "text/plain"
           [] f[Len(f)] = "csv" -> "text/csv"
           [] f[Len(f)] = "zip" -> "application/zip"
           [] OTHER -> None

\* TextExtractor.SUPPORTED_MIME_TYPES
SUPPORTED_MIME_TYPES ==
    [m \in {PDF, DOCX, "text/plain", "text/csv"} |->
        CASE m = PDF -> "pdf" [] m = DOCX -> "docx" [] OTHER -> "txt"]

\* a detection that looks at the filename before the content (not the code's)
DetectFallbackByName(c, f) ==
    IF f # <<>> /\ GuessType(f) \in DOMAIN SUPPORTED_MIME_TYPES THEN GuessType(f)
    ELSE IF DetectBySignature(c) # None THEN DetectBySignature(c)
    ELSE "text/plain"

\* TextExtractor._detect_mime_type without python-magic, or after
\* from_buffer raised
DetectFallback(c, f) ==
    IF DetectBySignature(c) # None THEN DetectBySignature(c)
    ELSE IF f # <<>> /\ GuessType(f) \in DOMAIN SUPPORTED_MIME_TYPES THEN GuessType(f)
    ELSE "text/plain"

\* magic.Magic(mime=True).from_buffer(file_content): libmagic sees the
\* content only and classifies it by its leading bytes; a ZIP archive that
\* holds a word-processing document is reported as such or as a ZIP archive,
\* depending on the version of libmagic.
MagicTypes(c) ==
    IF StartsWith(c, "%PDF") THEN {PDF}
    ELSE IF StartsWith(c, "PK34")
    THEN (IF \E i \in 1..Len(c) : c[i] = "marker"
          THEN {DOCX, "application/zip"} ELSE {"application/zip"})
    ELSE IF StartsWith(c, "PNG") THEN {"image/png"}
    ELSE IF StartsWith(c, "JPEG") THEN {"image/jpeg"}
    ELSE IF StartsWith(c, "GIF8") THEN {"image/gif"}
    ELSE IF \A i \in 1..Len(c) : c[i] \notin {"ctrl", "bad", "PNG", "JPEG", "PK34"}
    THEN {"text/plain"}
    ELSE {"application/octet-stream"}

\* TextExtractor._detect_mime_type: the MIME types it can return
DetectMimeType(use_magic, c, f) ==
    IF use_magic
    THEN MagicTypes(c) \cup {DetectFallback(c, f)}
    ELSE {DetectFallback(c, f)}

\* The texts a parser or a decoder yields.
SampleTexts ==
    {<<"a">>, <<"sp", "lf">>, <<"a", "lf", "sp", "lf", "lf", "a">>,
     <<"sp", "a", "tab", "tab", "a", "cr", "lf">>}

TxFrame ==
    UNCHANGED <<fsDocs, fsAnalyses, mDocs, mAnalyses, mHistory, gcs, req,
                lastResponse, okVersions, opCount, nextId, faults, ai>>

TxDone(t, outcome) == [t EXCEPT !.phase = "done", !.outcome = outcome]

TxCall(use_magic, c, f) ==
    [TxIdle EXCEPT !.use_magic = use_magic, !.file_content = c, !.filename = f]

\* extract_text without its preconditions (not the code's)
ExtractTextUnchecked(use_magic, c, f) ==
    /\ tx.phase = "idle"
    /\ tx' = [TxCall(use_magic, c, f) EXCEPT !.phase = "detect"]
    /\ TxFrame

\* TextExtractor() and the preconditions of extract_text
ExtractText(use_magic, c, f) ==
    /\ tx.phase = "idle"
    /\ tx' = IF ByteLen(c) > MAX_FILE_SIZE
             THEN TxDone(TxCall(use_magic, c, f), "TextExtractionError:size")
             ELSE IF c = <<>>
             THEN TxDone(TxCall(use_magic, c, f), "TextExtractionError:empty")
             ELSE [TxCall(use_magic, c, f) EXCEPT !.phase = "detect"]
    /\ TxFrame

\* _detect_mime_type and the check against SUPPORTED_MIME_TYPES
DetectMime ==
    /\ tx.phase = "detect"
    /\ \E m \in DetectMimeType(tx.use_magic, tx.file_content, tx.filename) :
          LET t == [tx EXCEPT !.mime_type = m,
                              !.ran = Append(@, "_detect_mime_type")]
          IN tx' = IF m \in DOMAIN SUPPORTED_MIME_TYPES
                   THEN [t EXCEPT !.phase = "extract"]
                   ELSE TxDone(t, "UnsupportedFileFormatError")
    /\ TxFrame

\* _extract_from_pdf, _extract_from_docx or _extract_from_txt: the parser
\* fails, or finds no text, or yields a text that is not blank
ExtractStrategy ==
    /\ tx.phase = "extract"
    /\ LET t == [tx EXCEPT !.ran = Append(@,
                     "_extract_from_" \o SUPPORTED_MIME_TYPES[tx.mime_type])]
       IN \/ /\ SUPPORTED_MIME_TYPES[tx.mime_type] # "txt"
             /\ tx' = TxDone(t, "TextExtractionError:extract")
          \/ \E text \in SampleTexts :
                tx' = IF StrStrip(text) = <<>>
                      THEN TxDone(t, "TextExtractionError:extract")
                      ELSE [t EXCEPT !.phase = "clean", !.text = text]
    /\ TxFrame

\* _clean_text on the strategy's text, then the result
CleanExtracted ==
    /\ tx.phase = "clean"
    /\ tx' = TxDone([tx EXCEPT !.cleaned = CleanText(tx.text),
                               !.ran = Append(@, "_clean_text")], "ok")
    /\ TxFrame

NextExtract ==
    \/ /\ tx.phase = "idle"
       /\ \E use_magic \in BOOLEAN, c \in Contents, f \in Filenames :
             ExtractText(use_magic, c, f)
    \/ DetectMime
    \/ ExtractStrategy
    \/ CleanExtracted

SpecExtract == Init /\ [][NextExtract]_vars

\* _clean_text called on any text
CleanCall(text) ==
    /\ tx.phase = "idle"
    /\ tx' = [TxIdle EXCEPT !.phase = "cleaned", !.text = text,
                            !.cleaned = CleanText(text),
                            !.ran = <<"_clean_text">>]
    /\ TxFrame

\* _clean_text called on the text it returned
CleanAgain ==
    /\ tx.phase = "cleaned"
    /\ tx' = [tx EXCEPT !.phase = "recleaned", !.text = tx.cleaned,
                        !.cleaned = CleanText(tx.cleaned),
                        !.ran = Append(@, "_clean_text")]
    /\ TxFrame

NextClean ==
    \/ /\ tx.phase = "idle"
       /\ \E text \in Strings : CleanCall(text)
    \/ CleanAgain

SpecClean == Init /\ [][NextClean]_vars

\* -------------------------------------------------------------- claims
Range(seq) == {seq[i] : i \in 1..Len(seq)}

\* C1: two analysis requests on the same document whose executions
\* interleave (both read the maximum version before either persists) never
\* both return success with the same version number: no version occurs twice
\* among the 200 responses of the analyze view for one document.
C1_NoTwoSuccessesSameVersion ==
    \A d \in DocIds : \A i, j \in 1..Len(okVersions[d]) :
        i # j => okVersions[d][i] # okVersions[d][j]

\* Two requests computed the same version without any failure raised: one
\* returned 200 with it, the other wrote it to Firestore and was refused by
\* the mirror's unique constraint.
C1_Witness ==
    /\ faults = 0
    /\ lastResponse.op = "analyze"
    /\ lastResponse.pc = "a_mirror"
    /\ lastResponse.status = "503:ai_failed"
    /\ lastResponse.wrote
    /\ lastResponse.version \in Range(okVersions[lastResponse.doc])

\* C2: N sequential (non-overlapping) successful analysis requests on one
\* document are assigned versions 1, 2, ..., N in order, with no repeats and
\* no gaps: with one request at a time, the i-th 200 response of the analyze
\* view for a document carries version i.
C2_SequentialVersions ==
    \A d \in DocIds : \A i \in 1..Len(okVersions[d]) : okVersions[d][i] = i

\* C3: the Firestore analyses sub-collection holds at most one analysis
\* record per (document_id, version) pair in every reachable state.
C3_OneRecordPerVersion ==
    \A d \in DocIds : \A a, b \in fsAnalyses[d] : a.version = b.version => a = b

\* C4: an analysis record written to Firestore is never changed or replaced
\* by a later request: every record of a state is still there, unchanged,
\* in the next state.
C4_RecordsImmutable ==
    [][\A d \in DocIds : fsAnalyses[d] \subseteq fsAnalyses'[d]]_vars

\* 1 + the maximum version recorded in Firestore for the document.
FsNextVersion(analyses, d) ==
    IF analyses[d] = {} THEN 1 ELSE Max({a.version : a \in analyses[d]}) + 1

\* C5: the version assigned to a new analysis is 1 plus the maximum version
\* recorded for the document in Firestore (1 when there is none), whatever
\* the mirror holds.
C5_VersionFromAuthoritativeStore ==
    [][\A s \in Slots :
          (req[s].pc = "a_version" /\ req'[s].pc = "a_fs")
              => req'[s].version = FsNextVersion(fsAnalyses, req[s].doc)]_vars

\* C6: when the Firestore write of an analysis succeeded and the mirror
\* write or the audit-log write that follows fails, the request still
\* returns success.
C6_MirrorFailureStillSucceeds ==
    (/\ lastResponse.op = "analyze"
     /\ lastResponse.wrote
     /\ lastResponse.pc \in {"a_mirror", "a_hist"})
        => lastResponse.status = "200"

\* The document-scoped checks of every view give the same outcome on docs
\* and on docs without document d.
SameOutcomeWithout(docs, c, d) ==
    LET gone == [docs EXCEPT ![d] = Missing]
    IN /\ GetObjectOutcome(docs, c, d) = GetObjectOutcome(gone, c, d)
       /\ \A f \in Files : UploadPrecheck(docs, c, d, f) = UploadPrecheck(gone, c, d, f)
       /\ \A in \in AnalyzeInputs :
             AnalyzePrecheck(docs, c, d, in[1], in[2])
                 = AnalyzePrecheck(gone, c, d, in[1], in[2])
       /\ DownloadOutcome(docs, gcs, c, d) = DownloadOutcome(gone, gcs, c, d)
       /\ \A found \in 0..MaxOps :
             AnalysisHistoryOutcome(docs, c, d, found)
                 = AnalysisHistoryOutcome(gone, c, d, found)

DocumentScopedOps ==
    {"retrieve", "destroy", "upload", "analyze", "download", "analysis"}

\* A document-scoped request by a caller who does not own the existing
\* document is answered at once with not-found (or with the error of a
\* failed Firestore read), and never gets past the ownership check.
NonOwnerAnswered ==
    /\ \A s \in Slots :
          (/\ req[s] = Idle /\ req'[s] # Idle
           /\ req'[s].op \in DocumentScopedOps)
              => /\ fsDocs[req'[s].doc].exists
                 /\ fsDocs[req'[s].doc].owner = req'[s].caller
    /\ (/\ opCount' = opCount + 1 /\ req' = req
        /\ lastResponse'.op \in DocumentScopedOps
        /\ lastResponse'.doc \in DocIds
        /\ fsDocs[lastResponse'.doc].exists
        /\ fsDocs[lastResponse'.doc].owner # lastResponse'.caller
        /\ faults' = faults)
           => /\ lastResponse'.status = "404:not_found"
              /\ UNCHANGED <<fsDocs, fsAnalyses, mDocs, mAnalyses, mHistory, gcs>>

\* C7: for retrieve, delete, upload, analyze, download and analysis history,
\* a caller who is not the owner gets the same outcome when the document
\* exists and belongs to someone else as when it does not exist, and that
\* outcome is the not-found one.
C7_NonOwnerSeesNotFound ==
    /\ [](\A c \in Users, d \in DocIds :
             (fsDocs[d].exists /\ fsDocs[d].owner # c)
                 => /\ SameOutcomeWithout(fsDocs, c, d)
                    /\ GetObjectOutcome(fsDocs, c, d) = "404:not_found")
    /\ [][NonOwnerAnswered]_vars

C7_Witness ==
    /\ lastResponse.op \in DocumentScopedOps
    /\ lastResponse.status = "404:not_found"
    /\ lastResponse.doc \in DocIds
    /\ fsDocs[lastResponse.doc].exists
    /\ fsDocs[lastResponse.doc].owner # lastResponse.caller
    /\ faults = 0

GuardedCalls == {"update_document", "delete_document", "store_analysis_result"}

\* The service call of this step was made by a caller who does not own the
\* existing document.
NonOwnerCall ==
    /\ opCount' = opCount + 1
    /\ lastResponse'.op \in GuardedCalls
    /\ fsDocs[lastResponse'.doc].exists
    /\ fsDocs[lastResponse'.doc].owner # lastResponse'.caller

\* C8: update_document, delete_document and store_analysis_result called for
\* a caller who is not the document's owner leave the document records and the
\* analysis records of Firestore unchanged and return False, in every
\* sequence of calls.
C8_NonOwnerCallsChangeNothing ==
    [][NonOwnerCall => /\ fsDocs' = fsDocs
                       /\ fsAnalyses' = fsAnalyses
                       /\ ~lastResponse'.wrote]_vars

C8_Witness ==
    /\ lastResponse.op \in GuardedCalls
    /\ ~lastResponse.wrote
    /\ fsDocs[lastResponse.doc].exists
    /\ fsDocs[lastResponse.doc].owner # lastResponse.caller
    /\ fsDocs[lastResponse.doc].status = "PROCESSING"
    /\ fsAnalyses[lastResponse.doc] # {}

\* C9: once a document record exists in Firestore its owner never changes,
\* whatever requests follow; a create request by another caller with the same
\* document id does not change the owner of the existing record.
C9_OwnerNeverChanges ==
    [][\A d \in DocIds :
          (fsDocs[d].exists /\ fsDocs'[d].exists)
              => fsDocs'[d].owner = fsDocs[d].owner]_vars

\* C10: an analysis request on a document without extracted text is answered
\* with the 400 'no extracted text' error, has made no vertex_client call and
\* leaves the analysis records of both stores as they were; only a document
\* with extracted text lets a request reach the vertex_client calls.
C10_NoTextNoAnalysis ==
    [][/\ \A s \in Slots :
             (req[s] = Idle /\ req'[s].op = "analyze")
                 => fsDocs[req'[s].doc].text # 0
       /\ (/\ opCount' = opCount + 1 /\ req' = req
           /\ lastResponse'.op = "analyze"
           /\ lastResponse'.doc \in DocIds
           /\ fsDocs[lastResponse'.doc].exists
           /\ fsDocs[lastResponse'.doc].owner = lastResponse'.caller
           /\ fsDocs[lastResponse'.doc].text = 0
           /\ faults' = faults)
              => /\ lastResponse'.status = "400:no_text"
                 /\ lastResponse'.calls = 0
                 /\ fsAnalyses' = fsAnalyses
                 /\ mAnalyses' = mAnalyses]_vars

C10_Witness ==
    /\ lastResponse.op = "analyze"
    /\ lastResponse.status = "400:no_text"
    /\ lastResponse.calls = 0
    /\ fsDocs[lastResponse.doc].exists
    /\ fsDocs[lastResponse.doc].text = 0
    /\ fsAnalyses[lastResponse.doc] = {}

\* C11: an analysis record is created, in Firestore or in the mirror, only
\* while the Firestore status of its document is ANALYZED; none is created
\* while the document is PENDING, PROCESSING or ERROR.
C11_AnalysisOnlyWhenAnalyzed ==
    [][\A d \in DocIds :
          (fsAnalyses'[d] # fsAnalyses[d]
             \/ {a \in mAnalyses' : a.doc = d} # {a \in mAnalyses : a.doc = d})
              => fsDocs[d].status = "ANALYZED"]_vars

\* C12: an upload request that has set the Firestore status of the document
\* to PROCESSING leaves it ANALYZED or ERROR when it returns; no completed
\* upload leaves the document in PROCESSING.
C12_UploadLeavesFinalStatus ==
    [][\A s \in Slots :
          (req[s].op = "upload" /\ req[s].wrote /\ req'[s] = Idle)
              => fsDocs'[req[s].doc].status \in {"ANALYZED", "ERROR"}]_vars

\* An attempt that did not return a text.
FailedAttempt(x) == x \in {"raise", "empty"}

\* C13: when the service returns a non-empty text that is not JSON, the
\* client method fails with the malformed-output error (ValueError, 400 in
\* the view) and _generate_text is not called again: the text is the reply
\* of the last attempt, and of the only one when it is the first reply.
C13_ParseFailureNotRetried ==
    /\ [][(ai.phase = "returned" /\ JsonLoads(ai.text) = "JSONDecodeError")
             => /\ ai'.phase = "done"
                /\ ai'.outcome = "ValueError"
                /\ ViewStatus(ai'.outcome) = "400:ai_invalid"
                /\ ai'.log = ai.log]_vars
    /\ [](ai.phase = "generating" => \A i \in 1..Len(ai.log) : FailedAttempt(ai.log[i]))

C13_Witness ==
    /\ ai.phase = "done"
    /\ ai.outcome = "ValueError"
    /\ ai.reply = <<"word">>
    /\ ai.log = <<"text">>

\* C14: when the service call fails on the first two attempts and succeeds
\* on the third, _generate_text makes the third attempt and returns its
\* text, and no exception is raised.
C14_ThirdAttemptReturned ==
    /\ []((Len(ai.log) \in 1..2 /\ \A i \in 1..Len(ai.log) : FailedAttempt(ai.log[i]))
             => ai.phase = "generating" /\ ai.outcome = "")
    /\ [][(ai.phase = "generating" /\ Len(ai.log) = 2
           /\ Len(ai'.log) = 3 /\ ai'.log[3] = "text")
             => /\ ai'.phase = "returned"
                /\ ai'.text = Strip(ai'.reply)
                /\ ai'.outcome = ""]_vars

C14_Witness ==
    /\ ai.phase = "returned"
    /\ ai.log = <<"raise", "raise", "text">>
    /\ ai.text = <<"obj">>

C16_NeverReturnsEmpty ==
    ai.phase = "returned" => ai.text # <<>>

\* C17: a 'translation' or 'all' request whose target language is not one
\* of en, es, fr, de, it, pt, zh, ja is rejected before any call of
\* _generate_text is made for it: it never reaches the client calls, and its
\* response is an error that reports no call.
C17_UnsupportedLanguageRejected ==
    LET supported == {"en", "es", "fr", "de", "it", "pt", "zh", "ja"}
        unsupported(r) == /\ r.op = "analyze"
                          /\ r.atype \in {"translation", "all"}
                          /\ r.lang \notin supported \cup {NoLang}
    IN /\ \A s \in Slots : ~unsupported(req[s])
       /\ unsupported(lastResponse)
             => lastResponse.calls = 0 /\ lastResponse.status # "200"

C17_Witness ==
    /\ lastResponse.op = "analyze"
    /\ lastResponse.atype = "all"
    /\ lastResponse.lang = "xx"
    /\ lastResponse.status = "500:invalid"
    /\ lastResponse.calls = 0
    /\ fsDocs[lastResponse.doc].owner = lastResponse.caller
    /\ fsDocs[lastResponse.doc].text # 0

\* The step in which the 'all' request of slot s ends because one of its
\* sub-analyses has raised.
CompositeFails(s) ==
    /\ req[s].op = "analyze" /\ req[s].atype = "all" /\ req[s].pc = "a_ai"
    /\ req'[s] = Idle

\* C18: an 'all' request is all-or-nothing: when one of its sub-analyses
\* fails the request returns an error, no analysis record is written to
\* Firestore or to the mirror, no version is taken and the response carries
\* no result.
C18_CompositeAllOrNothing ==
    [][\A s \in Slots :
          CompositeFails(s)
              => /\ lastResponse'.status \in {"400:ai_invalid", "503:ai_failed"}
                 /\ lastResponse'.failed \in 1..4
                 /\ lastResponse'.version = 0
                 /\ ~lastResponse'.wrote
                 /\ fsAnalyses' = fsAnalyses
                 /\ mAnalyses' = mAnalyses
                 /\ mHistory' = mHistory
                 /\ okVersions' = okVersions]_vars

C18_Witness ==
    /\ lastResponse.op = "analyze"
    /\ lastResponse.atype = "all"
    /\ lastResponse.failed = 3
    /\ lastResponse.status = "503:ai_failed"
    /\ lastResponse.version = 0
    /\ fsAnalyses[lastResponse.doc] = {}

\* C19: in an 'all' request, once a sub-analysis has failed no further
\* sub-analysis is called: the calls made are those up to the one that
\* failed.
C19_NoCallAfterFailure ==
    (/\ lastResponse.op = "analyze"
     /\ lastResponse.atype = "all"
     /\ lastResponse.failed # 0)
        => lastResponse.calls <= lastResponse.failed

C19_Witness ==
    /\ lastResponse.op = "analyze"
    /\ lastResponse.atype = "all"
    /\ lastResponse.failed = 2
    /\ lastResponse.calls = 2
    /\ lastResponse.status = "400:ai_invalid"

\* C20: every token_usage produced by an analysis has total_tokens =
\* input_tokens + output_tokens, and for an 'all' request input_tokens and
\* output_tokens are the sums of those of its sub-analyses.
C20_TokenTotals ==
    LET consistent(u) == u.total_tokens = u.input_tokens + u.output_tokens
        part(i, field) == IF i <= Len(ai.usages) THEN ai.usages[i][field] ELSE 0
        sum(field) == part(1, field) + part(2, field) + part(3, field) + part(4, field)
        combined == CombineTokenUsage(ai.usages)
    IN /\ consistent(ai.usage)
       /\ \A i \in 1..Len(ai.usages) : consistent(ai.usages[i])
       /\ Len(ai.usages) <= 4
       /\ consistent(combined)
       /\ combined.input_tokens = sum("input_tokens")
       /\ combined.output_tokens = sum("output_tokens")
       /\ (ai.phase = "done" /\ ai.outcome = "ok")
             => /\ ai.usage.input_tokens = ai.words + PromptWords(ai.method)
                /\ ai.usage.output_tokens >= 1

C20_Witness ==
    /\ ai.request = "all"
    /\ ai.phase = "done"
    /\ ai.outcome = "ok"
    /\ Len(ai.usages) = 4
    /\ CombineTokenUsage(ai.usages).output_tokens = 6
    /\ CombineTokenUsage(ai.usages).total_tokens = 91 + 148 + 172 + 70 + 3 + 6

\* C21: create writes the authoritative store first; when the authoritative
\* create fails, the request fails with service-unavailable (503) and
\* neither a Document row nor a CREATED history entry is written to the
\* mirror.  The mirror part holds; the status part does not: the failure
\* leaves the view as an unhandled exception (500).
CreateFirestoreFails(s) ==
    /\ req[s].op = "create" /\ req[s].pc = "c_fs"
    /\ req'[s] = Idle
    /\ fsDocs' = fsDocs

C21_FailedCreateIs503 ==
    [][\A s \in Slots :
          CreateFirestoreFails(s)
              => /\ lastResponse'.status = "503:firestore"
                 /\ mDocs' = mDocs
                 /\ mHistory' = mHistory]_vars

\* C22: delete proceeds when the blob deletion fails: the blob error is
\* swallowed (the request goes on to the authoritative delete with no
\* response and no other change), and a delete that reports success has
\* removed the authoritative and the mirror record, whether or not the blob
\* is still stored.
BlobOf(r) == [owner |-> r.caller, doc |-> r.doc]

C22_BlobErrorSwallowed ==
    \A s \in Slots :
        (req[s].pc = "d_gcs" /\ req'[s] # req[s])
            => /\ req'[s] = [req[s] EXCEPT !.pc = "d_fs"]
               /\ lastResponse' = lastResponse
               /\ UNCHANGED <<fsDocs, mDocs, mHistory>>
               /\ faults' # faults => gcs' = gcs

C22_SuccessMeansDeleted ==
    \A s \in Slots :
        (req[s].op = "destroy" /\ req'[s] = Idle /\ lastResponse'.status = "204")
            => /\ ~fsDocs'[req[s].doc].exists
               /\ ~mDocs'[req[s].doc].exists

C22_DeleteSurvivesBlobFailure ==
    [][C22_BlobErrorSwallowed /\ C22_SuccessMeansDeleted]_vars

\* a delete answered 204 although its blob is still stored
C22_Witness ==
    /\ lastResponse.op = "destroy"
    /\ lastResponse.status = "204"
    /\ BlobOf(lastResponse) \in gcs
    /\ ~fsDocs[lastResponse.doc].exists
    /\ ~mDocs[lastResponse.doc].exists
    /\ faults = 1

\* C23: deleting a Document leaves every Analysis and History record of
\* that id in the mirror unchanged (a destroy request only appends its own
\* history entry), and no operation modifies or removes an existing
\* History entry: the history only grows at its end.
IsPrefix(a, b) ==
    /\ Len(a) <= Len(b)
    /\ SubSeq(b, 1, Len(a)) = a

C23_DestroyKeepsRecords ==
    \A s \in Slots :
        (req[s].op = "destroy" /\ req'[s] # req[s])
            => /\ mAnalyses' = mAnalyses
               /\ IsPrefix(mHistory, mHistory')
               /\ Len(mHistory') <= Len(mHistory) + 1

C23_MirrorRecordsKept ==
    [][C23_DestroyKeepsRecords /\ IsPrefix(mHistory, mHistory')]_vars

\* a deleted document whose analysis row and earlier history entry remain
C23_Witness ==
    /\ lastResponse.op = "destroy"
    /\ lastResponse.status = "204"
    /\ ~mDocs[lastResponse.doc].exists
    /\ \E a \in mAnalyses : a.doc = lastResponse.doc
    /\ \E i \in 1..Len(mHistory) :
          /\ mHistory[i].doc = lastResponse.doc
          /\ mHistory[i].action = "ANALYZED"

\* C24: the cleaning pass is idempotent: cleaning a cleaned text returns it
\* unchanged, for every text over letters, spaces, tabs, carriage returns
\* and line feeds.  It is not: the lines are trimmed after the runs of line
\* feeds are collapsed, so lines of blanks leave runs of three line feeds.
C24_CleanIdempotent ==
    tx.phase = "recleaned" => tx.cleaned = tx.text

DetectRan == "_detect_mime_type" \in Range(tx.ran)

LacksMarker(c) == \A i \in 1..Len(c) : c[i] # "marker"

C26_PlainTextOnlyByRule ==
    (DetectRan /\ tx.mime_type = "text/plain")
        => \/ GuessType(tx.filename) \in DOMAIN SUPPORTED_MIME_TYPES
           \/ /\ DecodesUtf8(tx.file_content)
              /\ 5 * PrintableCount(tx.file_content) >= 4 * DecodedLen(tx.file_content)

\* C27: extract_text checks its preconditions first: an empty buffer fails
\* with the empty-input error and a buffer above MAX_FILE_SIZE with the
\* too-large error, and in both cases neither the detection nor any
\* strategy nor the cleaning has run.
C27_PreconditionsFirst ==
    tx.phase \notin {"idle", "cleaned", "recleaned"} =>
        /\ tx.file_content = <<>>
              => /\ tx.phase = "done"
                 /\ tx.outcome = "TextExtractionError:empty"
                 /\ tx.ran = <<>>
        /\ ByteLen(tx.file_content) > MAX_FILE_SIZE
              => /\ tx.phase = "done"
                 /\ tx.outcome = "TextExtractionError:size"
                 /\ tx.ran = <<>>

\* a buffer one byte above the ceiling, rejected before anything ran
C27_Witness ==
    /\ tx.phase = "done"
    /\ ByteLen(tx.file_content) = MAX_FILE_SIZE + 1
    /\ tx.outcome = "TextExtractionError:size"
    /\ tx.ran = <<>>

\* C28: whenever an analysis request returns success with version v, the
\* Firestore record of that document, analysis type and version v holds
\* that request's result, also when another request computes the same
\* version at the same time.  Stated for the requests whose
\* store_analysis_result call wrote their record (wrote).
AnalyzeSucceeds(s) ==
    /\ req[s].op = "analyze"
    /\ req'[s] = Idle
    /\ lastResponse'.status = "200"

C28_SuccessMeansStored ==
    [][\A s \in Slots :
          (AnalyzeSucceeds(s) /\ req[s].wrote)
              => [atype |-> req[s].atype, version |-> req[s].version,
                  result |-> req[s].id] \in fsAnalyses'[req[s].doc]]_vars

\* C29: the extracted text and the status ANALYZED are written together, at
\* most once per upload: whenever an upload ends with the Firestore status
\* ERROR, the extracted text of the document is not the text of this upload
\* (it is what it was before the upload began), also when the mirror update
\* or the history entry fails after the extraction.
UploadEnds(s) ==
    /\ req[s].op = "upload"
    /\ req[s].doc # BadId
    /\ req'[s] = Idle

C29_ErrorKeepsText ==
    [][\A s \in Slots :
          (UploadEnds(s) /\ fsDocs'[req[s].doc].status = "ERROR")
              => fsDocs'[req[s].doc].text # req[s].id]_vars

\* C30: an upload rejected before processing (malformed id, document not
\* found or not owned, invalid file) leaves both stores and the blob store
\* unchanged: no step of a request with an invalid file, and no step that
\* answers an upload with 400 or 404, changes a document or stores a blob.
RejectedUploadStep(s) ==
    \/ /\ req[s].op = "upload" /\ req[s].file = "invalid"
       /\ req'[s] # req[s]
    \/ /\ req[s] = Idle /\ req'[s] = Idle
       /\ lastResponse' # lastResponse
       /\ lastResponse'.op = "upload"
       /\ lastResponse'.status \in {"400:bad_id", "404:not_found"}

C30_RejectedUploadChangesNothing ==
    [][\A s \in Slots :
          RejectedUploadStep(s) => UNCHANGED <<fsDocs, mDocs, gcs>>]_vars

====
